---------------------------- MODULE Spec2Model ----------------------------
(***************************************************************************)
(* CleanSweep (pc-cleaner/app.py): the path catalog, the size accountant,  *)
(* forced removal, the scan engine and the streaming clean engine, over an *)
(* abstract filesystem.                                                    *)
(*                                                                         *)
(* The filesystem is a finite tree of named paths.  Every entry carries    *)
(*   kind   : "none" | "file" | "dir" | "link"                             *)
(*   size   : st_size of a regular file                                    *)
(*   denied : the OS refuses open/chmod/unlink/rmdir on the entry          *)
(*            (PermissionError: foreign owner, file in use, ...)           *)
(*   mode   : "rw" | "ro" | "wo"  (the permission bits os.chmod rewrites)  *)
(*   target : what a symbolic link points to                               *)
(***************************************************************************)
EXTENDS Integers, Sequences, FiniteSets, TLC

\* ------------------------------------------------------------------ bounds
\* Number of clean requests served one after the other in a behaviour.
MaxPasses == 2

\* Number of direct calls of the utility functions in a behaviour.
MaxCalls == 2

\* Number of times another actor touches the filesystem in a behaviour.
MaxActs == 2

\* ------------------------------------------------------------- path names
NoPath == "<none>"

TMP     == "/tmp"
VARTMP  == "/var/tmp"
X       == "/tmp/x"
FA      == "/tmp/x/a"
FB      == "/tmp/x/b"
FC      == "/tmp/x/c"
LOCKED  == "/tmp/x/locked"
FG      == "/tmp/x/locked/g"
LNK     == "/tmp/x/lnk"
CACHE   == "~/.cache"
THUMBS  == "~/.cache/thumbnails"
FT      == "~/.cache/thumbnails/t"
XBEL    == "~/.local/share/recently-used.xbel"
DOC     == "~/doc"
LIBC    == "~/Library/Caches"
GOOGLE  == "~/Library/Caches/Google"
CHROME  == "~/Library/Caches/Google/Chrome"
FCH     == "~/Library/Caches/Google/Chrome/f"
WTEMP   == "%TEMP%"
FU      == "%TEMP%/u.tmp"

\* The paths that can hold an entry; any other path never exists.
Paths ==
    { TMP, X, FA, FB, FC, LOCKED, FG, LNK, CACHE, THUMBS, FT, XBEL, DOC,
      LIBC, GOOGLE, CHROME, FCH, WTEMP, FU }

\* The directory a path is an entry of.
Parent ==
    [ p \in Paths |->
        CASE p \in {X} -> TMP
          [] p \in {FA, FB, FC, LOCKED, LNK} -> X
          [] p = FG -> LOCKED
          [] p = THUMBS -> CACHE
          [] p = FT -> THUMBS
          [] p = GOOGLE -> LIBC
          [] p = CHROME -> GOOGLE
          [] p = FCH -> CHROME
          [] p = FU -> WTEMP
          [] OTHER -> NoPath ]

Children(d) == { c \in Paths : Parent[c] = d }

RECURSIVE Under(_, _)
\* p lies strictly inside the tree rooted at d.
Under(p, d) ==
    /\ p \in Paths
    /\ Parent[p] # NoPath
    /\ (Parent[p] = d \/ Under(Parent[p], d))

\* ---------------------------------------------------------------- entries
Absent == [kind |-> "none", size |-> 0, denied |-> FALSE, mode |-> "rw", target |-> NoPath]
File(n) == [kind |-> "file", size |-> n, denied |-> FALSE, mode |-> "rw", target |-> NoPath]
ReadOnlyFile(n) == [File(n) EXCEPT !.mode = "ro"]
DeniedFile(n) == [File(n) EXCEPT !.denied = TRUE]
Dir == [kind |-> "dir", size |-> 0, denied |-> FALSE, mode |-> "rw", target |-> NoPath]
DeniedDir == [Dir EXCEPT !.denied = TRUE]
Link(t) == [kind |-> "link", size |-> 0, denied |-> FALSE, mode |-> "rw", target |-> t]

\* The entry a path names after following a symbolic link (os.stat), NoPath
\* when there is none (FileNotFoundError).
Resolve(F, p) ==
    IF p \notin Paths \/ F[p].kind = "none" THEN NoPath
    ELSE IF F[p].kind = "link"
         THEN IF F[p].target \in Paths /\ F[F[p].target].kind \in {"file", "dir"}
              THEN F[p].target ELSE NoPath
         ELSE p

\* os.stat(p) is refused (PermissionError, EACCES) when a directory on the
\* way to p may not be searched.  pathlib.Path.exists of the supported
\* interpreters (setup.py: 3.8 .. 3.12) re-raises every OSError but
\* ENOENT, ENOTDIR, EBADF and ELOOP.
StatDenied(F, p) ==
    \E a \in Paths :
        Under(p, a) /\ F[a].kind = "dir" /\ (F[a].denied \/ F[a].mode = "wo")

\* pathlib.Path.exists / is_dir / is_file follow symbolic links;
\* is_symlink does not.
exists(F, p) == Resolve(F, p) # NoPath
is_dir(F, p) == Resolve(F, p) # NoPath /\ F[Resolve(F, p)].kind = "dir"
is_file(F, p) == Resolve(F, p) # NoPath /\ F[Resolve(F, p)].kind = "file"
is_symlink(F, p) == p \in Paths /\ F[p].kind = "link"

\* os.scandir / Path.iterdir succeed on a directory the process may open.
Listable(F, d) == d # NoPath /\ F[d].kind = "dir" /\ ~F[d].denied /\ F[d].mode # "wo"

\* The names a listing of directory d returns.
Entries(F, d) == { c \in Children(d) : F[c].kind # "none" }

\* --------------------------------------------------------- size accountant
RECURSIVE get_dir_size(_, _)
RECURSIVE SumEntrySizes(_, _)

\* Mutant: is_file() without follow_symlinks=False, so that a link to a
\* regular file counts with the size of what it points to.
EntrySize_FollowsFileLinks(F, c) ==
    IF is_file(F, c) THEN F[Resolve(F, c)].size
    ELSE IF F[c].kind = "dir" THEN get_dir_size(F, c)
    ELSE 0

\* One entry of the scandir loop of get_dir_size: a regular file adds its
\* size, a directory its recursive size, a symbolic link nothing.
EntrySize(F, c) ==
    IF F[c].kind = "file" THEN F[c].size
    ELSE IF F[c].kind = "dir" THEN get_dir_size(F, c)
    ELSE 0

SumEntrySizes(F, S) ==
    IF S = {} THEN 0
    ELSE LET c == CHOOSE x \in S : TRUE
         IN  EntrySize(F, c) + SumEntrySizes(F, S \ {c})

\* Mutant: one handler for the whole walk, so that a directory inside that
\* cannot be listed loses what was counted so far.
get_dir_size_AbortsOnError(F, path) ==
    LET d == Resolve(F, path)
    IN  IF Listable(F, d) /\ ~StatDenied(F, path)
        THEN IF \A c \in Entries(F, d) : F[c].kind = "dir" => Listable(F, c)
             THEN SumEntrySizes(F, Entries(F, d))
             ELSE 0
        ELSE 0

\* get_dir_size(path): os.scandir follows a link in path itself; a failing
\* scandir (missing, not a directory, not permitted, below a directory that
\* may not be searched) is swallowed: 0.
get_dir_size(F, path) ==
    LET d == Resolve(F, path)
    IN  IF Listable(F, d) /\ ~StatDenied(F, path)
        THEN SumEntrySizes(F, Entries(F, d))
        ELSE 0

\* ---------------------------------------------------------- forced removal
\* os.chmod(path, stat.S_IWRITE): POSIX sets the mode to 0o200, Windows only
\* clears the read-only attribute.
S_IWRITE(os, m) == IF os = "Windows" THEN "rw" ELSE "wo"

Unlink(F, p) == [F EXCEPT ![p] = Absent]

\* The onerror handler of force_remove: chmod then retry, every exception
\* swallowed.  Called for an entry whose removal (or opening) failed and
\* still fails on the retry: only the chmod, when permitted, leaves a trace.
onerror(F, os, p) ==
    IF F[p].denied THEN F ELSE [F EXCEPT ![p].mode = S_IWRITE(os, @)]

RECURSIVE rmtree(_, _, _)
RECURSIVE RmEntries(_, _, _)

\* One entry inside a tree being removed: a directory is descended into, a
\* file or link is unlinked; a refused unlink goes to onerror, whose chmod
\* is refused as well.
RmEntry(F, os, c) ==
    IF F[c].kind = "dir" THEN rmtree(F, os, c)
    ELSE IF F[c].denied THEN F
    ELSE Unlink(F, c)

RmEntries(F, os, S) ==
    IF S = {} THEN F
    ELSE LET c == CHOOSE x \in S : TRUE
         IN  RmEntries(RmEntry(F, os, c), os, S \ {c})

\* shutil.rmtree(path, onerror=onerror) on a real directory: never raises.
\* A directory that cannot be opened is left whole; otherwise its entries
\* are removed as far as permitted and rmdir succeeds iff none is left.
rmtree(F, os, d) ==
    IF ~Listable(F, d) THEN onerror(F, os, d)
    ELSE LET F1 == RmEntries(F, os, Entries(F, d))
         IN  IF Entries(F1, d) = {} /\ ~F1[d].denied
             THEN Unlink(F1, d)
             ELSE onerror(F1, os, d)

\* Mutant: `return True` moved behind the try block, so that every call that
\* did not raise reports success.
force_remove_TrueAtEnd(F, os, path) ==
    IF StatDenied(F, path)
    THEN [fs |-> F, ok |-> FALSE]
    ELSE IF is_file(F, path) \/ is_symlink(F, path)
    THEN LET t == Resolve(F, path)
         IN  IF t = NoPath \/ F[t].denied
             THEN [fs |-> F, ok |-> FALSE]
             ELSE LET F1 == [F EXCEPT ![t].mode = S_IWRITE(os, @)]
                  IN  IF F1[path].denied \/ StatDenied(F1, path)
                      THEN [fs |-> F1, ok |-> FALSE]
                      ELSE [fs |-> Unlink(F1, path), ok |-> TRUE]
    ELSE IF is_dir(F, path)
    THEN [fs |-> rmtree(F, os, path), ok |-> TRUE]
    ELSE [fs |-> F, ok |-> TRUE]

\* force_remove(path): the filesystem afterwards and the boolean returned.
force_remove(F, os, path) ==
    IF StatDenied(F, path)
    THEN [fs |-> F, ok |-> FALSE]                   \* p.is_file() raises
    ELSE IF is_file(F, path) \/ is_symlink(F, path)
    THEN LET t == Resolve(F, path)
         IN  IF t = NoPath \/ F[t].denied
             THEN [fs |-> F, ok |-> FALSE]          \* os.chmod raises
             ELSE LET F1 == [F EXCEPT ![t].mode = S_IWRITE(os, @)]
                  IN  IF F1[path].denied \/ StatDenied(F1, path)
                      THEN [fs |-> F1, ok |-> FALSE] \* os.remove raises
                      ELSE [fs |-> Unlink(F1, path), ok |-> TRUE]
    ELSE IF is_dir(F, path)
    THEN [fs |-> rmtree(F, os, path), ok |-> TRUE]
    ELSE [fs |-> F, ok |-> FALSE]

\* ------------------------------------------------------------ path catalog
Cat(name, paths) == [category |-> name, paths |-> paths]

\* get_clean_targets(): the insertion-ordered mapping category -> candidate
\* paths of each platform branch.  Environment roots (home, %WINDIR%,
\* %LOCALAPPDATA%, %APPDATA%, %TEMP%) are symbolic; the Firefox profile root
\* does not exist in the modelled environment, so its glob gives [].
get_clean_targets(os) ==
    IF os = "Windows" THEN
      << Cat("User Temp Files", <<WTEMP>>),
         Cat("Windows Temp", <<"%WINDIR%/Temp">>),
         Cat("Prefetch", <<"%WINDIR%/Prefetch">>),
         Cat("Recent Files", <<"%APPDATA%/Microsoft/Windows/Recent">>),
         Cat("Thumbnail Cache", <<"%LOCALAPPDATA%/Microsoft/Windows/Explorer">>),
         Cat("Windows Error Reports",
             <<"%LOCALAPPDATA%/Microsoft/Windows/WER", "C:/ProgramData/Microsoft/Windows/WER">>),
         Cat("Windows Update Cache", <<"C:/Windows/SoftwareDistribution/Download">>),
         Cat("DirectX Shader Cache", <<"%LOCALAPPDATA%/D3DSCache">>),
         Cat("Chrome Cache",
             <<"%LOCALAPPDATA%/Google/Chrome/User Data/Default/Cache",
               "%LOCALAPPDATA%/Google/Chrome/User Data/Default/Code Cache",
               "%LOCALAPPDATA%/Google/Chrome/User Data/Default/GPUCache">>),
         Cat("Edge Cache",
             <<"%LOCALAPPDATA%/Microsoft/Edge/User Data/Default/Cache",
               "%LOCALAPPDATA%/Microsoft/Edge/User Data/Default/Code Cache">>),
         Cat("Firefox Cache", << >>),
         Cat("Teams Cache", <<"%LOCALAPPDATA%/Microsoft/Teams/Cache">>),
         Cat("Discord Cache", <<"%APPDATA%/discord/Cache", "%APPDATA%/discord/Code Cache">>),
         Cat("Spotify Cache", <<"%LOCALAPPDATA%/Spotify/Data">>),
         Cat("Log Files", <<"%WINDIR%/Logs">>),
         Cat("Crash Dumps", <<"%LOCALAPPDATA%/CrashDumps">>),
         Cat("Font Cache", <<"%LOCALAPPDATA%/FontCache">>) >>
    ELSE IF os = "Darwin" THEN
      << Cat("User Cache", <<LIBC>>),
         Cat("System Log Files", <<"/var/log">>),
         Cat("User Log Files", <<"~/Library/Logs">>),
         Cat("Temporary Files", <<TMP, VARTMP>>),
         Cat("Chrome Cache", <<CHROME>>),
         Cat("Firefox Cache", <<"~/Library/Caches/Firefox">>),
         Cat("Safari Cache", <<"~/Library/Caches/com.apple.Safari">>),
         Cat("Trash", <<"~/.Trash">>),
         Cat("iOS Device Backups", <<"~/Library/Application Support/MobileSync/Backup">>),
         Cat("Xcode Cache", <<"~/Library/Developer/Xcode/DerivedData">>),
         Cat("pip Cache", <<"~/Library/Caches/pip">>) >>
    ELSE
      << Cat("User Cache", <<CACHE>>),
         Cat("Temporary Files", <<TMP, VARTMP>>),
         Cat("System Logs", <<"/var/log">>),
         Cat("User Logs", <<XBEL>>),
         Cat("Thumbnail Cache", <<THUMBS>>),
         Cat("Chrome Cache", <<"~/.cache/google-chrome", "~/.config/google-chrome/Default/Cache">>),
         Cat("Firefox Cache", << >>),
         Cat("pip Cache", <<"~/.cache/pip">>),
         Cat("apt Cache", <<"/var/cache/apt/archives">>),
         Cat("npm Cache", <<"~/.npm/_cacache">>),
         Cat("Trash", <<"~/.local/share/Trash">>),
         Cat("Coredumps", <<"/var/crash", "~/.local/share/apport/coredump">>) >>

\* The catalog of the end-to-end scenario: {"Temp": ["/tmp/x"]}.
TempCatalog == << Cat("Temp", <<X>>) >>

\* -------------------------------------------------------------- scan engine
RECURSIVE CatSize_CountsFiles(_, _, _)
\* Mutant: a candidate path that is a regular file counts with its own size.
CatSize_CountsFiles(F, paths, k) ==
    IF k > Len(paths) THEN 0
    ELSE (IF exists(F, paths[k])
          THEN (IF is_file(F, paths[k]) THEN F[Resolve(F, paths[k])].size
                ELSE get_dir_size(F, paths[k]))
          ELSE 0)
         + CatSize_CountsFiles(F, paths, k + 1)

RECURSIVE CatSize(_, _, _)
\* The inner loop of scan over paths[k..]: the size of every existing path.
CatSize(F, paths, k) ==
    IF k > Len(paths) THEN 0
    ELSE (IF exists(F, paths[k]) THEN get_dir_size(F, paths[k]) ELSE 0)
         + CatSize(F, paths, k + 1)

\* Mutant: a category is reported when it holds any bytes.
CatExists_BySize(F, paths) == CatSize(F, paths, 1) > 0

\* The flag `exists` of scan: some candidate path exists.
CatExists(F, paths) == \E k \in 1..Len(paths) : exists(F, paths[k])

RECURSIVE ScanResults(_, _, _)
\* The outer loop of scan over targets[k..]: results in catalog order.
ScanResults(F, T, k) ==
    IF k > Len(T) THEN << >>
    ELSE (IF CatExists(F, T[k].paths)
          THEN << [category |-> T[k].category,
                   size |-> CatSize(F, T[k].paths, 1),
                   paths |-> T[k].paths] >>
          ELSE << >>)
         \o ScanResults(F, T, k + 1)

\* Mutant: an ascending sort reversed afterwards (equal sizes change order).
InsertDesc_Unstable(rs, r) ==
    LET n == Cardinality({ i \in 1..Len(rs) : rs[i].size > r.size })
    IN  SubSeq(rs, 1, n) \o <<r>> \o SubSeq(rs, n + 1, Len(rs))

\* Where list.sort(key=size, reverse=True) puts r among the already sorted
\* rs: behind every element at least as large (the sort is stable).
InsertDesc(rs, r) ==
    LET n == Cardinality({ i \in 1..Len(rs) : rs[i].size >= r.size })
    IN  SubSeq(rs, 1, n) \o <<r>> \o SubSeq(rs, n + 1, Len(rs))

RECURSIVE SortDesc(_, _)
\* results.sort(key=lambda x: x["size"], reverse=True) from element k on.
SortDesc(sorted, rest) ==
    IF rest = << >> THEN sorted
    ELSE SortDesc(InsertDesc(sorted, Head(rest)), Tail(rest))

RECURSIVE SumSizes(_)
SumSizes(rs) == IF rs = << >> THEN 0 ELSE Head(rs).size + SumSizes(Tail(rs))

\* scan(): the report returned for filesystem F and catalog T; the request
\* fails when an existence check raises.
scan(F, T) ==
    IF \E k \in 1..Len(T) : \E j \in 1..Len(T[k].paths) : StatDenied(F, T[k].paths[j])
    THEN [status |-> "error", total |-> 0, categories |-> << >>]
    ELSE LET results == ScanResults(F, T, 1)
         IN  [status |-> "ok", total |-> SumSizes(results),
              categories |-> SortDesc(<< >>, results)]

NoReport == [status |-> "none", total |-> 0, categories |-> << >>]

\* ------------------------------------------------------------------- state
VARIABLES
    OS,            \* platform.system(), read once at import
    targets,       \* what get_clean_targets() returns in this environment
    fs,            \* the filesystem
    pc,            \* where the generator of the current clean pass stands
    ci,            \* generate: index of `category` in targets
    pi,            \* generate: index of `p` in paths
    cat,           \* generate: freed / errors / items of the current category
    total_freed,   \* generate: total_freed
    total_errors,  \* generate: total_errors
    todo,          \* clean_directory_contents: entries of d.iterdir() still to visit
    cdc,           \* clean_directory_contents: freed / errors / items_removed
    mi,            \* generate: index of the platform maintenance action
    events,        \* the events handed to the consumer in this pass, in order
    pass,          \* number of clean requests so far
    fs0,           \* the filesystem when the current pass was requested
    prev,          \* the DoneEvent of the pass before, if it ran to its end
    report,        \* the response of a scan that has just returned
    outcomes,      \* what each maintenance command of this pass did, in order
    acts,          \* how often another actor has touched the filesystem
    ret            \* what a direct call of one of the utility functions returned

vars ==
    << OS, targets, fs, pc, ci, pi, cat, total_freed, total_errors, todo, cdc,
       mi, events, pass, fs0, prev, report, outcomes, acts, ret >>

Zero == [freed |-> 0, errors |-> 0, items |-> 0]

\* The generator is suspended: not yet started, or at one of its yields.
Suspended == {"start", "yield_category", "yield_maintenance", "yield_done"}

\* clean_directory_contents(directory, delete_subfolders=True): the only
\* call passes no second argument.
delete_subfolders == TRUE

\* The maintenance actions after the category loop, per platform, named by
\* the category of the event each one yields.
Maintenance(os) ==
    IF os = "Windows" THEN <<"DNS Cache", "Recycle Bin">>
    ELSE IF os = "Darwin" THEN <<"DNS Cache">>
    ELSE IF os = "Linux" THEN <<"Sync Disk Buffers">>
    ELSE << >>

\* What a maintenance command can do: end with status 0, end with a
\* non-zero status (subprocess.run without check, an HRESULT: no exception),
\* or raise (missing executable, timeout, missing module).
MaintOutcomes == {"ok", "failed", "raised"}

CleanEvent(name, c) ==
    [kind |-> "category", category |-> name,
     freed |-> c.freed, items |-> c.items, errors |-> c.errors]

MaintenanceEvent(name) ==
    [kind |-> "maintenance", category |-> name, freed |-> 0, items |-> 1, errors |-> 0]

DoneEvent(freed, errs) ==
    [kind |-> "done", category |-> "", freed |-> freed, items |-> 0, errors |-> errs]

NoEvent == [kind |-> "none", category |-> "", freed |-> 0, items |-> 0, errors |-> 0]

\* No utility function has been called directly.
NoCall ==
    [op |-> "none", path |-> NoPath, ok |-> FALSE, size |-> 0,
     freed |-> 0, errors |-> 0, items |-> 0]

\* ---------------------------------------------------------- initial states
MkFS(given) == [p \in Paths |-> IF p \in DOMAIN given THEN given[p] ELSE Absent]

\* /tmp/x with up to three files, a subdirectory and a symbolic link.
ScenarioFS ==
    { MkFS(TMP :> Dir @@ X :> Dir @@ FA :> a @@ FB :> b @@ FC :> c
           @@ LOCKED :> l @@ FG :> g @@ LNK :> k @@ DOC :> ReadOnlyFile(50)) :
        a \in {Absent, File(400), DeniedFile(400)},
        b \in {Absent, File(500), ReadOnlyFile(500)},
        c \in {Absent, File(600)},
        l \in {Absent, Dir, DeniedDir},
        g \in {Absent, File(100), DeniedFile(100)},
        k \in {Absent, Link(DOC), Link(LOCKED), Link("/nowhere")} }

\* An entry exists only inside an existing directory.
WellFormed(F) ==
    \A p \in Paths :
        F[p].kind # "none" /\ Parent[p] # NoPath => F[Parent[p]].kind = "dir"

LinuxFS ==
    { MkFS(CACHE :> h @@ THUMBS :> th @@ FT :> t @@ XBEL :> xb
           @@ TMP :> tm @@ X :> x @@ FB :> b @@ DOC :> File(50)) :
        h \in {Absent, Dir, DeniedDir},
        th \in {Absent, Dir},
        t \in {Absent, File(500)},
        xb \in {Absent, File(100)},
        tm \in {Absent, Dir},
        x \in {Absent, Dir},
        b \in {Absent, File(500), DeniedFile(500)} }

DarwinFS ==
    { MkFS(LIBC :> h @@ GOOGLE :> gg @@ CHROME :> gg @@ FCH :> f
           @@ TMP :> tm @@ X :> tm @@ FB :> b) :
        h \in {Absent, Dir},
        gg \in {Absent, Dir},
        f \in {Absent, File(200), DeniedFile(200)},
        tm \in {Absent, Dir},
        b \in {Absent, File(500)} }

WindowsFS ==
    { MkFS(WTEMP :> d @@ FU :> u) :
        d \in {Absent, Dir},
        u \in {Absent, File(300), ReadOnlyFile(300), DeniedFile(300)} }

Init ==
    /\ \/ OS = "Linux" /\ targets = TempCatalog /\ fs \in ScenarioFS
       \/ OS \in {"Linux", "FreeBSD"} /\ targets = get_clean_targets(OS) /\ fs \in LinuxFS
       \/ OS = "Darwin" /\ targets = get_clean_targets(OS) /\ fs \in DarwinFS
       \/ OS = "Windows" /\ targets = get_clean_targets(OS) /\ fs \in WindowsFS
    /\ WellFormed(fs)
    /\ \A k \in 1..Len(targets) : \A j \in 1..Len(targets[k].paths) :
           ~StatDenied(fs, targets[k].paths[j])
    /\ pc = "idle"
    /\ ci = 0 /\ pi = 0 /\ mi = 0
    /\ cat = Zero /\ cdc = Zero
    /\ total_freed = 0 /\ total_errors = 0
    /\ todo = {}
    /\ events = << >>
    /\ pass = 0
    /\ fs0 = fs
    /\ prev = NoEvent
    /\ report = NoReport
    /\ outcomes = << >>
    /\ acts = 0
    /\ ret = NoCall

\* ----------------------------------------------------------- clean engine
gen == << ci, pi, cat, total_freed, total_errors, todo, cdc, mi >>

\* Mutant: freed grows before the removal is attempted, whatever comes of it.
clean_item_FreedFirst(F, os, item) ==
    IF StatDenied(F, item) \/ ~exists(F, item)
    THEN [fs |-> F, freed |-> 0, errors |-> 1, items |-> 0]
    ELSE LET item_size == IF is_dir(F, item) THEN get_dir_size(F, item)
                          ELSE F[Resolve(F, item)].size
             r == force_remove(F, os, item)
         IN  IF (is_dir(F, item) /\ delete_subfolders) \/ is_file(F, item)
             THEN IF r.ok
                  THEN [fs |-> r.fs, freed |-> item_size, errors |-> 0, items |-> 1]
                  ELSE [fs |-> r.fs, freed |-> item_size, errors |-> 1, items |-> 0]
             ELSE [fs |-> F, freed |-> 0, errors |-> 0, items |-> 0]

\* One iteration of the loop over d.iterdir() in clean_directory_contents:
\* the filesystem afterwards and what is added to freed, errors and
\* items_removed.
clean_item(F, os, item) ==
    IF StatDenied(F, item) \/ ~exists(F, item)
    THEN [fs |-> F, freed |-> 0, errors |-> 1, items |-> 0]      \* is_dir() / stat() raises
    ELSE LET item_size == IF is_dir(F, item) THEN get_dir_size(F, item)
                          ELSE F[Resolve(F, item)].size
             r == force_remove(F, os, item)
         IN  IF (is_dir(F, item) /\ delete_subfolders) \/ is_file(F, item)
             THEN IF r.ok
                  THEN [fs |-> r.fs, freed |-> item_size, errors |-> 0, items |-> 1]
                  ELSE [fs |-> r.fs, freed |-> 0, errors |-> 1, items |-> 0]
             ELSE [fs |-> F, freed |-> 0, errors |-> 0, items |-> 0]

\* clean(): the request creates the generator; none of its code has run.
clean ==
    /\ pc \in {"idle", "finished", "closed", "raised"}
    /\ pass < MaxPasses
    /\ pass' = pass + 1
    /\ pc' = "start"
    /\ events' = << >>
    /\ fs0' = fs
    /\ prev' = IF pc = "finished" THEN events[Len(events)] ELSE NoEvent
    /\ ci' = 0 /\ pi' = 0 /\ mi' = 0 /\ cat' = Zero /\ cdc' = Zero /\ todo' = {}
    /\ total_freed' = 0 /\ total_errors' = 0
    /\ report' = NoReport
    /\ outcomes' = << >>
    /\ UNCHANGED << ret, acts, OS, targets, fs >>

\* The consumer's first next(): generate runs up to its category loop.
Start ==
    /\ pc = "start"
    /\ pc' = "for_category"
    /\ ci' = 1
    /\ total_freed' = 0 /\ total_errors' = 0
    /\ report' = NoReport
    /\ UNCHANGED << ret, acts, outcomes, OS, targets, fs, pi, cat, todo, cdc, mi, events, pass, fs0, prev >>

\* Mutant: freed / errors / items initialised once, outside the loop.
ForCategory_NoReset ==
    /\ pc = "for_category"
    /\ ci <= Len(targets)
    /\ cat' = cat
    /\ pi' = 1
    /\ pc' = "for_path"
    /\ report' = NoReport
    /\ UNCHANGED << ret, acts, outcomes, OS, targets, fs, ci, total_freed, total_errors, todo, cdc, mi,
                    events, pass, fs0, prev >>

\* for category, paths in targets.items(): the next category, or the loop's end.
ForCategory ==
    /\ pc = "for_category"
    /\ ci <= Len(targets)
    /\ cat' = Zero
    /\ pi' = 1
    /\ pc' = "for_path"
    /\ report' = NoReport
    /\ UNCHANGED << ret, acts, outcomes, OS, targets, fs, ci, total_freed, total_errors, todo, cdc, mi,
                    events, pass, fs0, prev >>

EndCategories ==
    /\ pc = "for_category"
    /\ ci > Len(targets)
    /\ mi' = 1
    /\ pc' = "maintenance"
    /\ report' = NoReport
    /\ UNCHANGED << ret, acts, outcomes, OS, targets, fs, ci, pi, cat, total_freed, total_errors, todo, cdc,
                    events, pass, fs0, prev >>

AtPath == pc = "for_path" /\ pi <= Len(targets[ci].paths)
p_ == targets[ci].paths[pi]

\* pp.exists() raises: the exception leaves generate, the stream ends.
PathRaises ==
    /\ AtPath
    /\ StatDenied(fs, p_)
    /\ pc' = "raised"
    /\ report' = NoReport
    /\ UNCHANGED << ret, acts, outcomes, OS, targets, fs, gen, events, pass, fs0, prev >>

\* pp.exists() is False: the candidate is skipped.
PathMissing ==
    /\ AtPath
    /\ ~StatDenied(fs, p_)
    /\ ~exists(fs, p_)
    /\ pi' = pi + 1
    /\ report' = NoReport
    /\ UNCHANGED << ret, acts, outcomes, OS, targets, fs, pc, ci, cat, total_freed, total_errors, todo, cdc,
                    mi, events, pass, fs0, prev >>

\* clean_directory_contents(p): d.iterdir() raises (not a directory, not
\* permitted); the call returns (0, 1, 0).
PathNotListable ==
    /\ AtPath
    /\ ~StatDenied(fs, p_)
    /\ exists(fs, p_)
    /\ ~Listable(fs, Resolve(fs, p_))
    /\ cat' = [cat EXCEPT !.errors = @ + 1]
    /\ pi' = pi + 1
    /\ report' = NoReport
    /\ UNCHANGED << ret, acts, outcomes, OS, targets, fs, pc, ci, total_freed, total_errors, todo, cdc,
                    mi, events, pass, fs0, prev >>

\* Mutant: the listing also holds the directory itself (as os.walk does).
EnterDirectory_WithSelf ==
    /\ AtPath
    /\ ~StatDenied(fs, p_)
    /\ exists(fs, p_)
    /\ Listable(fs, Resolve(fs, p_))
    /\ todo' = Entries(fs, Resolve(fs, p_)) \cup {Resolve(fs, p_)}
    /\ cdc' = Zero
    /\ pc' = "for_item"
    /\ report' = NoReport
    /\ UNCHANGED << ret, acts, outcomes, OS, targets, fs, ci, pi, cat, total_freed, total_errors,
                    mi, events, pass, fs0, prev >>

\* clean_directory_contents(p): the directory is listed.
EnterDirectory ==
    /\ AtPath
    /\ ~StatDenied(fs, p_)
    /\ exists(fs, p_)
    /\ Listable(fs, Resolve(fs, p_))
    /\ todo' = Entries(fs, Resolve(fs, p_))
    /\ cdc' = Zero
    /\ pc' = "for_item"
    /\ report' = NoReport
    /\ UNCHANGED << ret, acts, outcomes, OS, targets, fs, ci, pi, cat, total_freed, total_errors,
                    mi, events, pass, fs0, prev >>

\* One entry of the listing, in whatever order the OS returned it.
CleanItem ==
    /\ pc = "for_item"
    /\ \E item \in todo :
         LET r == clean_item(fs, OS, item)
         IN  /\ fs' = r.fs
             /\ cdc' = [freed |-> cdc.freed + r.freed,
                        errors |-> cdc.errors + r.errors,
                        items |-> cdc.items + r.items]
             /\ todo' = todo \ {item}
    /\ report' = NoReport
    /\ UNCHANGED << ret, acts, outcomes, OS, targets, pc, ci, pi, cat, total_freed, total_errors,
                    mi, events, pass, fs0, prev >>

\* clean_directory_contents returns; generate adds f, e, i to the category.
ReturnDirectory ==
    /\ pc = "for_item"
    /\ todo = {}
    /\ cat' = [freed |-> cat.freed + cdc.freed,
               errors |-> cat.errors + cdc.errors,
               items |-> cat.items + cdc.items]
    /\ pi' = pi + 1
    /\ pc' = "for_path"
    /\ report' = NoReport
    /\ UNCHANGED << ret, acts, outcomes, OS, targets, fs, ci, total_freed, total_errors, todo, cdc,
                    mi, events, pass, fs0, prev >>

\* Mutant: the yield that forgets to add the category's errors to the total.
YieldCategory_DropsErrors ==
    /\ pc = "for_path"
    /\ pi > Len(targets[ci].paths)
    /\ total_freed' = total_freed + cat.freed
    /\ total_errors' = total_errors
    /\ events' = Append(events, CleanEvent(targets[ci].category, cat))
    /\ pc' = "yield_category"
    /\ report' = NoReport
    /\ UNCHANGED << ret, acts, outcomes, OS, targets, fs, ci, pi, cat, todo, cdc, mi, pass, fs0, prev >>

\* After the last path: the totals grow and the category's event is yielded.
YieldCategory ==
    /\ pc = "for_path"
    /\ pi > Len(targets[ci].paths)
    /\ total_freed' = total_freed + cat.freed
    /\ total_errors' = total_errors + cat.errors
    /\ events' = Append(events, CleanEvent(targets[ci].category, cat))
    /\ pc' = "yield_category"
    /\ report' = NoReport
    /\ UNCHANGED << ret, acts, outcomes, OS, targets, fs, ci, pi, cat, todo, cdc, mi, pass, fs0, prev >>

\* Mutant: the producer goes on to the next category whether or not anyone
\* still consumes.
ResumeCategory_Unchecked ==
    /\ pc \in {"yield_category", "closed"}
    /\ ci' = ci + 1
    /\ pc' = "for_category"
    /\ report' = NoReport
    /\ UNCHANGED << ret, acts, outcomes, OS, targets, fs, pi, cat, total_freed, total_errors, todo, cdc,
                    mi, events, pass, fs0, prev >>

\* next() at the category yield: time.sleep, then the loop goes on.
ResumeCategory ==
    /\ pc = "yield_category"
    /\ ci' = ci + 1
    /\ pc' = "for_category"
    /\ report' = NoReport
    /\ UNCHANGED << ret, acts, outcomes, OS, targets, fs, pi, cat, total_freed, total_errors, todo, cdc,
                    mi, events, pass, fs0, prev >>

AtMaintenance == pc = "maintenance" /\ mi <= Len(Maintenance(OS))

\* The maintenance command returns (whatever its exit status): its event
\* is yielded.
MaintenanceReturns ==
    /\ AtMaintenance
    /\ \E outcome \in MaintOutcomes :
         /\ outcome # "raised"
         /\ outcomes' = Append(outcomes, outcome)
         /\ events' = Append(events, MaintenanceEvent(Maintenance(OS)[mi]))
    /\ pc' = "yield_maintenance"
    /\ report' = NoReport
    /\ UNCHANGED << ret, acts, OS, targets, fs, gen, pass, fs0, prev >>

\* The maintenance command raises: except Exception: pass.
MaintenanceRaises ==
    /\ AtMaintenance
    /\ \E outcome \in MaintOutcomes :
         /\ outcome = "raised"
         /\ outcomes' = Append(outcomes, outcome)
    /\ mi' = mi + 1
    /\ report' = NoReport
    /\ UNCHANGED << ret, acts, OS, targets, fs, pc, ci, pi, cat, total_freed, total_errors, todo,
                    cdc, events, pass, fs0, prev >>

ResumeMaintenance ==
    /\ pc = "yield_maintenance"
    /\ mi' = mi + 1
    /\ pc' = "maintenance"
    /\ report' = NoReport
    /\ UNCHANGED << ret, acts, outcomes, OS, targets, fs, ci, pi, cat, total_freed, total_errors, todo,
                    cdc, events, pass, fs0, prev >>

\* The final yield.
YieldDone ==
    /\ pc = "maintenance"
    /\ mi > Len(Maintenance(OS))
    /\ events' = Append(events, DoneEvent(total_freed, total_errors))
    /\ pc' = "yield_done"
    /\ report' = NoReport
    /\ UNCHANGED << ret, acts, outcomes, OS, targets, fs, gen, pass, fs0, prev >>

\* next() at the final yield: generate returns (StopIteration).
ResumeDone ==
    /\ pc = "yield_done"
    /\ pc' = "finished"
    /\ report' = NoReport
    /\ UNCHANGED << ret, acts, outcomes, OS, targets, fs, gen, events, pass, fs0, prev >>

\* The consumer disconnects: the transport closes the suspended generator
\* (GeneratorExit at the yield is no Exception, so no handler catches it).
Disconnect ==
    /\ pc \in Suspended
    /\ pc' = "closed"
    /\ report' = NoReport
    /\ UNCHANGED << ret, acts, outcomes, OS, targets, fs, gen, events, pass, fs0, prev >>

\* The steps generate takes by itself between two yields.
Run ==
    \/ ForCategory \/ EndCategories
    \/ PathRaises \/ PathMissing \/ PathNotListable \/ EnterDirectory
    \/ CleanItem \/ ReturnDirectory \/ YieldCategory
    \/ MaintenanceReturns \/ MaintenanceRaises \/ YieldDone

\* The consumer pulling the next event.
Pull == Start \/ ResumeCategory \/ ResumeMaintenance \/ ResumeDone

\* Mutant: a scan that opens up directories it may not read (chmod) before
\* it sizes them.
Scan_OpensDirectories ==
    /\ fs' = [ q \in Paths |->
                IF fs[q].kind = "dir" /\ fs[q].mode = "wo" /\ ~fs[q].denied
                THEN [fs[q] EXCEPT !.mode = "rw"] ELSE fs[q] ]
    /\ report' = scan(fs', targets)
    /\ UNCHANGED << ret, acts, outcomes, OS, targets, pc, gen, events, pass, fs0, prev >>

\* scan(): one request, answered from the filesystem as it is.
Scan ==
    /\ report' = scan(fs, targets)
    /\ UNCHANGED << ret, acts, outcomes, OS, targets, fs, pc, gen, events, pass, fs0, prev >>

\* The response of a scan is serialised and dropped: it is visible only in
\* the state the request returns in (every other step resets report).
Next ==
    \/ Scan
    \/ clean
    \/ Start \/ ResumeCategory \/ ResumeMaintenance \/ ResumeDone
    \/ ForCategory \/ EndCategories
    \/ PathRaises \/ PathMissing \/ PathNotListable \/ EnterDirectory
    \/ CleanItem \/ ReturnDirectory \/ YieldCategory
    \/ MaintenanceReturns \/ MaintenanceRaises \/ YieldDone
    \/ Disconnect

Spec == Init /\ [][Next]_vars

\* A consumer that keeps pulling, and a generator that runs when resumed.
LiveSpec == Spec /\ WF_vars(Pull) /\ WF_vars(Run)

\* ------------------------------------------------------- a second actor
\* The paths the catalog reaches: the candidate paths and what lies in them.
InCandidateTree(q) ==
    \E k \in 1..Len(targets) : \E j \in 1..Len(targets[k].paths) :
        q = targets[k].paths[j] \/ Under(q, targets[k].paths[j])

\* The filesystem without q and everything inside it.
DeleteTree(F, q) == [ x \in Paths |-> IF x = q \/ Under(x, q) THEN Absent ELSE F[x] ]

\* The modelled entries each platform's catalog reaches.
FullTree(os) ==
    IF os = "Windows" THEN WTEMP :> Dir @@ FU :> File(300)
    ELSE IF os = "Darwin"
    THEN LIBC :> Dir @@ GOOGLE :> Dir @@ CHROME :> Dir @@ FCH :> File(200)
         @@ TMP :> Dir @@ X :> Dir @@ FB :> File(500)
    ELSE CACHE :> Dir @@ THUMBS :> Dir @@ FT :> File(500) @@ XBEL :> File(100)
         @@ TMP :> Dir @@ X :> Dir @@ FB :> File(500)

\* Another request served at the same time (requests are not coordinated),
\* or any other process of the user: between two steps of this request it
\* removes an entry the catalog reaches, or changes its mode the way
\* force_remove does.
Actor ==
    /\ acts < MaxActs
    /\ acts' = acts + 1
    /\ \E q \in Paths :
         /\ InCandidateTree(q)
         /\ fs[q].kind # "none"
         /\ ~fs[q].denied
         /\ \/ fs' = DeleteTree(fs, q)
            \/ /\ fs[q].mode # S_IWRITE(OS, fs[q].mode)
               /\ fs' = [fs EXCEPT ![q].mode = S_IWRITE(OS, @)]
    /\ report' = NoReport
    /\ UNCHANGED << ret, outcomes, OS, targets, pc, gen, events, pass, fs0, prev >>

\* Each platform's catalog on a filesystem that holds every modelled entry
\* of it (the actor takes entries away), and one clean pass.
ActorInit ==
    /\ Init
    /\ targets = get_clean_targets(OS)
    /\ \A q \in Paths : InCandidateTree(q) => (fs[q].kind # "none" <=> q \in DOMAIN FullTree(OS))

\* The first clean request of a behaviour.
FirstClean == clean /\ pass = 0

ActorNext ==
    \/ Actor
    \/ Scan
    \/ FirstClean
    \/ Start \/ ResumeCategory \/ ResumeMaintenance \/ ResumeDone
    \/ ForCategory \/ EndCategories
    \/ PathRaises \/ PathMissing \/ PathNotListable \/ EnterDirectory
    \/ CleanItem \/ ReturnDirectory \/ YieldCategory
    \/ MaintenanceReturns \/ MaintenanceRaises \/ YieldDone
    \/ Disconnect

ActorSpec == ActorInit /\ [][ActorNext]_vars

\* ------------------------------------------- the utility functions alone
\* /tmp/x with files of 100, 200 and 300 bytes, a subdirectory that may be
\* closed to the process, and a symbolic link to a file outside, to the
\* subdirectory, back to /tmp/x itself (a cycle) or to nothing.
TreeFS ==
    { MkFS(TMP :> Dir @@ X :> Dir @@ FA :> a @@ FB :> b @@ FC :> c
           @@ LOCKED :> l @@ FG :> g @@ LNK :> k @@ DOC :> ReadOnlyFile(50)) :
        a \in {File(100), DeniedFile(100)},
        b \in {File(200), ReadOnlyFile(200)},
        c \in {Absent, File(300)},
        l \in {Absent, Dir, DeniedDir},
        g \in {Absent, File(70)},
        k \in {Absent, Link(DOC), Link(LOCKED), Link(X), Link("/nowhere")} }

\* The paths the functions are called with.
Inputs == { X, FA, FB, LOCKED, FG, LNK, DOC, "/nowhere" }

PureInit ==
    /\ OS \in {"Linux", "Windows"}
    /\ targets = TempCatalog
    /\ fs \in TreeFS
    /\ WellFormed(fs)
    /\ pc = "idle"
    /\ ci = 0 /\ pi = 0 /\ mi = 0
    /\ cat = Zero /\ cdc = Zero
    /\ total_freed = 0 /\ total_errors = 0
    /\ todo = {}
    /\ events = << >>
    /\ pass = 0
    /\ fs0 = fs
    /\ prev = NoEvent
    /\ report = NoReport
    /\ outcomes = << >>
    /\ acts = 0
    /\ ret = NoCall

\* get_dir_size(path) called on the filesystem as it is; fs0 keeps the
\* filesystem the call started from.
CallGetDirSize ==
    /\ pc = "idle"
    /\ pass < MaxCalls
    /\ \E path \in Inputs :
         ret' = [NoCall EXCEPT !.op = "get_dir_size", !.path = path,
                               !.size = get_dir_size(fs, path)]
    /\ fs0' = fs
    /\ pass' = pass + 1
    /\ UNCHANGED << OS, targets, fs, pc, gen, events, prev, report, outcomes, acts >>

\* force_remove(path) called on the filesystem as it is.
CallForceRemove ==
    /\ pc = "idle"
    /\ pass < MaxCalls
    /\ \E path \in Inputs :
         LET r == force_remove(fs, OS, path)
         IN  /\ fs' = r.fs
             /\ ret' = [NoCall EXCEPT !.op = "force_remove", !.path = path, !.ok = r.ok]
    /\ fs0' = fs
    /\ pass' = pass + 1
    /\ UNCHANGED << OS, targets, pc, gen, events, prev, report, outcomes, acts >>

\* clean_directory_contents(directory): d.exists() raises (the path lies
\* below a directory that may not be searched); the exception leaves the
\* function.
CallCleanRaises ==
    /\ pc = "idle"
    /\ pass < MaxCalls
    /\ \E path \in Inputs :
         /\ StatDenied(fs, path)
         /\ ret' = [NoCall EXCEPT !.op = "clean_directory_contents", !.path = path]
    /\ fs0' = fs
    /\ pass' = pass + 1
    /\ UNCHANGED << OS, targets, fs, pc, gen, events, prev, report, outcomes, acts >>

\* clean_directory_contents(directory) returns before its loop: nothing is
\* there (0, 0, 0), or d.iterdir() raises (0, 1, 0).
CallCleanSkips ==
    /\ pc = "idle"
    /\ pass < MaxCalls
    /\ \E path \in Inputs :
         /\ ~StatDenied(fs, path)
         /\ ~exists(fs, path) \/ ~Listable(fs, Resolve(fs, path))
         /\ ret' = [NoCall EXCEPT !.op = "clean_directory_contents", !.path = path,
                                  !.ok = TRUE,
                                  !.errors = IF exists(fs, path) THEN 1 ELSE 0]
    /\ fs0' = fs
    /\ pass' = pass + 1
    /\ UNCHANGED << OS, targets, fs, pc, gen, events, prev, report, outcomes, acts >>

\* clean_directory_contents(directory) lists the directory; its loop is
\* CleanItem.
CallCleanEnters ==
    /\ pc = "idle"
    /\ pass < MaxCalls
    /\ \E path \in Inputs :
         /\ ~StatDenied(fs, path)
         /\ exists(fs, path)
         /\ Listable(fs, Resolve(fs, path))
         /\ todo' = Entries(fs, Resolve(fs, path))
         /\ ret' = [NoCall EXCEPT !.path = path]
    /\ cdc' = Zero
    /\ pc' = "for_item"
    /\ fs0' = fs
    /\ pass' = pass + 1
    /\ UNCHANGED << OS, targets, fs, ci, pi, cat, total_freed, total_errors, mi,
                    events, prev, report, outcomes, acts >>

\* return freed, errors, items_removed
CallCleanReturns ==
    /\ pc = "for_item"
    /\ todo = {}
    /\ ret' = [NoCall EXCEPT !.op = "clean_directory_contents", !.path = ret.path,
                             !.ok = TRUE, !.freed = cdc.freed,
                             !.errors = cdc.errors, !.items = cdc.items]
    /\ pc' = "idle"
    /\ UNCHANGED << OS, targets, fs, gen, events, pass, fs0, prev, report, outcomes, acts >>

PureNext ==
    \/ CallGetDirSize
    \/ CallForceRemove
    \/ CallCleanRaises \/ CallCleanSkips \/ CallCleanEnters
    \/ CleanItem
    \/ CallCleanReturns

PureSpec == PureInit /\ [][PureNext]_vars

\* ------------------------------------------------------------------ claims
CategoryEvents == SelectSeq(events, LAMBDA e : e.kind = "category")
DoneEmitted == \E i \in 1..Len(events) : events[i].kind = "done"

\* The pass has ended by itself: generate returned, or an exception left it.
Ended == pc \in {"finished", "raised"}

RECURSIVE SumFreed(_)
SumFreed(es) == IF es = << >> THEN 0 ELSE Head(es).freed + SumFreed(Tail(es))
RECURSIVE SumErrors(_)
SumErrors(es) == IF es = << >> THEN 0 ELSE Head(es).errors + SumErrors(Tail(es))

\* All candidate paths of the catalog.
Candidates ==
    UNION { { targets[k].paths[j] : j \in 1..Len(targets[k].paths) } : k \in 1..Len(targets) }
        \cap Paths

\* C1: in every clean pass exactly one DoneEvent is emitted and it is the
\* last event: nothing follows a DoneEvent, and no pass ends without one,
\* whatever the removals and maintenance actions did.
C1_DoneExactlyOnceAndLast ==
    /\ \A i \in 1..Len(events) : events[i].kind = "done" => i = Len(events)
    /\ Ended => DoneEmitted

\* C2: a pass emits exactly one CleanEvent per catalog category, in catalog
\* order, and the event of category N is handed over after all removals of
\* category N and before any removal of category N+1.
C2_OneEventPerCategoryInOrder ==
    /\ \A i \in 1..Len(CategoryEvents) :
          /\ i <= Len(targets)
          /\ events[i] = CategoryEvents[i]
          /\ events[i].category = targets[i].category
    /\ pc \in {"for_path", "for_item"} => Len(CategoryEvents) = ci - 1
    /\ pc = "yield_category" => Len(CategoryEvents) = ci
    /\ Ended => Len(CategoryEvents) = Len(targets)

\* The part of C2 that does not ask the pass to reach its end.
C2_OrderOnly ==
    /\ \A i \in 1..Len(CategoryEvents) :
          /\ i <= Len(targets)
          /\ events[i] = CategoryEvents[i]
          /\ events[i].category = targets[i].category
    /\ pc \in {"for_path", "for_item"} => Len(CategoryEvents) = ci - 1
    /\ pc = "yield_category" => Len(CategoryEvents) = ci
    /\ DoneEmitted => Len(CategoryEvents) = Len(targets)

\* C3: with a consumer that keeps pulling, a requested pass always reaches
\* its DoneEvent (or the consumer has disconnected).
C3_PassTerminates == (pc = "start") ~> (DoneEmitted \/ pc = "closed")

\* C4: the DoneEvent's total_freed and errors are the sums of the freed and
\* errors fields of all events before it; maintenance events carry 0 and 0.
C4_DoneTotals ==
    \A i \in 1..Len(events) :
        /\ events[i].kind = "done" =>
              /\ events[i].freed = SumFreed(SubSeq(events, 1, i - 1))
              /\ events[i].errors = SumErrors(SubSeq(events, 1, i - 1))
        /\ events[i].kind = "maintenance" =>
              events[i].freed = 0 /\ events[i].errors = 0

C4_Witness ==
    /\ DoneEmitted
    /\ Len(CategoryEvents) >= 2
    /\ \E i \in 1..Len(events) : events[i].kind = "maintenance"
    /\ events[Len(events)].freed > 0
    /\ events[Len(events)].errors > 0

\* The end-to-end scenario: /tmp/x holds three regular files of 400, 500
\* and 600 bytes and one subdirectory that cannot be opened.
TempScenario ==
    /\ targets = TempCatalog
    /\ pass = 1
    /\ fs0[FA] = File(400) /\ fs0[FB] = File(500) /\ fs0[FC] = File(600)
    /\ fs0[LOCKED] = DeniedDir
    /\ fs0[LNK] = Absent

\* C5: in that scenario the pass emits CleanEvent{Temp, freed 1500, items 3,
\* errors 1} and then DoneEvent{total_freed 1500, errors 1}: the
\* subdirectory that cannot be removed is an error, not a removed item.
C5_TempScenarioEvents ==
    TempScenario =>
        /\ Len(events) >= 1 =>
              events[1] = CleanEvent("Temp", [freed |-> 1500, items |-> 3, errors |-> 1])
        /\ DoneEmitted =>
              events[Len(events)] = DoneEvent(1500, 1)

\* A pass that follows a pass which ran to its end.
SecondPass == pass >= 2 /\ prev.kind = "done"

ZeroEvent(e) == e.freed = 0 /\ e.errors = 0 /\ e.items = 0

\* Every existing candidate path of category k was, when the current pass
\* was requested, a directory that can be listed and holds nothing.
EmptiedCategory(k) ==
    \A j \in 1..Len(targets[k].paths) :
        LET p == targets[k].paths[j]
        IN  exists(fs0, p) =>
                /\ Listable(fs0, Resolve(fs0, p))
                /\ Entries(fs0, Resolve(fs0, p)) = {}

Nested(p) == \E q \in Candidates : q # p /\ fs0[q].kind = "dir" /\ Under(p, q)

\* C7 as claimed: every candidate path that is a directory when the pass
\* starts is still a directory when the DoneEvent is emitted, nested
\* candidate paths included.
C7_CandidatesSurvive ==
    DoneEmitted =>
        \A p \in Candidates : fs0[p].kind = "dir" => fs[p].kind = "dir"

\* C7 as amended: every candidate path that is a directory when the pass
\* starts and does not lie inside another existing candidate directory is
\* still a directory when the DoneEvent is emitted.
C7_OutermostCandidatesSurvive ==
    DoneEmitted =>
        \A p \in Candidates :
            fs0[p].kind = "dir" /\ ~Nested(p) => fs[p].kind = "dir"

C7_Witness ==
    /\ DoneEmitted
    /\ \E p \in Candidates :
          /\ fs0[p].kind = "dir" /\ ~Nested(p)
          /\ Entries(fs0, p) # {}
          /\ fs[p].kind = "dir" /\ Entries(fs, p) = {}

ReportNames == { report.categories[i].category : i \in 1..Len(report.categories) }

\* C9: the report of a scan holds a category iff one of its candidate
\* paths exists, and holds no category twice.
C9_ReportedIffExists ==
    report.status = "ok" =>
        /\ \A k \in 1..Len(targets) :
              targets[k].category \in ReportNames
                  <=> (\E j \in 1..Len(targets[k].paths) : exists(fs, targets[k].paths[j]))
        /\ Cardinality(ReportNames) = Len(report.categories)

C9_Witness ==
    /\ report.status = "ok"
    /\ \E i \in 1..Len(report.categories) : report.categories[i].size = 0
    /\ \E i \in 1..Len(report.categories) : report.categories[i].size > 0
    /\ \E k \in 1..Len(targets) :
          targets[k].paths = << >> /\ targets[k].category \notin ReportNames
    /\ \E k \in 1..Len(targets) :
          targets[k].paths # << >> /\ targets[k].category \notin ReportNames

\* The place of a category in the catalog.
CatalogIndex(name) == CHOOSE k \in 1..Len(targets) : targets[k].category = name

\* C10: the report's categories are in non-increasing order of size, and
\* categories of equal size are in catalog order.
C10_SortedStable ==
    report.status = "ok" =>
        \A i \in 1..Len(report.categories) : \A j \in 1..Len(report.categories) :
            i < j =>
                /\ report.categories[i].size >= report.categories[j].size
                /\ report.categories[i].size = report.categories[j].size =>
                      CatalogIndex(report.categories[i].category)
                          < CatalogIndex(report.categories[j].category)

C10_Witness ==
    /\ report.status = "ok"
    /\ \E i \in 1..Len(report.categories) : \E j \in 1..Len(report.categories) :
          /\ i < j
          /\ report.categories[i].size = report.categories[j].size
          /\ report.categories[i].size > 0
    /\ \E i \in 1..Len(report.categories) : \E j \in 1..Len(report.categories) :
          /\ report.categories[i].size > report.categories[j].size
          /\ CatalogIndex(report.categories[i].category)
                 > CatalogIndex(report.categories[j].category)

\* The candidate paths of catalog entry k that exist in F.
ExistingPaths(F, k) ==
    { targets[k].paths[j] : j \in { i \in 1..Len(targets[k].paths) : exists(F, targets[k].paths[i]) } }

RECURSIVE SizeOfAll(_, _)
\* What the size accountant returns, added up over a set of paths.
SizeOfAll(F, S) ==
    IF S = {} THEN 0
    ELSE LET q == CHOOSE x \in S : TRUE
         IN  get_dir_size(F, q) + SizeOfAll(F, S \ {q})

RECURSIVE ReportSum(_)
\* The size fields of the first n categories of the report, added up.
ReportSum(n) == IF n = 0 THEN 0 ELSE report.categories[n].size + ReportSum(n - 1)

\* C11: the grand total of a scan report is the sum of the sizes of the
\* categories in the report, and the size of each category is the sum of
\* get_dir_size over those of its candidate paths that exist.
C11_GrandTotal ==
    report.status = "ok" =>
        /\ report.total = ReportSum(Len(report.categories))
        /\ \A i \in 1..Len(report.categories) :
              report.categories[i].size
                  = SizeOfAll(fs, ExistingPaths(fs, CatalogIndex(report.categories[i].category)))

\* A report with two categories that hold bytes, one whose candidate is a
\* regular file (the size accountant gives 0 for it), and a category left out.
C11_Witness ==
    /\ report.status = "ok"
    /\ Cardinality({ i \in 1..Len(report.categories) : report.categories[i].size > 0 }) >= 2
    /\ \E i \in 1..Len(report.categories) :
          /\ report.categories[i].size = 0
          /\ \E q \in ExistingPaths(fs, CatalogIndex(report.categories[i].category)) :
                is_file(fs, q) /\ fs[q].size > 0
    /\ Len(report.categories) < Len(targets)
    /\ report.total = ReportSum(Len(report.categories))
    /\ report.total > 0

FilesUnder(F, d) == { f \in Paths : Under(f, d) /\ F[f].kind = "file" }

RECURSIVE SumFileSizes(_, _)
SumFileSizes(F, S) ==
    IF S = {} THEN 0
    ELSE LET f == CHOOSE x \in S : TRUE
         IN  F[f].size + SumFileSizes(F, S \ {f})

\* d is a directory that can be reached, and it and every directory inside
\* it can be listed.
FullyReadable(F, d) ==
    /\ d \in Paths
    /\ F[d].kind = "dir"
    /\ ~StatDenied(F, d)
    /\ \A q \in Paths : (q = d \/ Under(q, d)) /\ F[q].kind = "dir" => Listable(F, q)

\* A directory that holds files of 100, 200 and 300 bytes and nothing else.
ThreeFiles == MkFS(TMP :> Dir @@ X :> Dir @@ FA :> File(100) @@ FB :> File(200) @@ FC :> File(300))

\* C13: called on a fully readable directory tree, get_dir_size returns the
\* sum of the sizes of the regular files at any depth inside it, each
\* counted once: a symbolic link among the entries adds nothing, whether it
\* points to a file, to a directory or back to the directory walked; files
\* of 100, 200 and 300 bytes give 600.
C13_SumOfRegularFiles ==
    /\ get_dir_size(ThreeFiles, X) = 600
    /\ ret.op = "get_dir_size" /\ FullyReadable(fs, ret.path)
           => ret.size = SumFileSizes(fs, FilesUnder(fs, ret.path))

\* /tmp/x with the three files, a file one level down and a link back to
\* /tmp/x itself: 100 + 200 + 300 + 70.
C13_Witness ==
    /\ ret.op = "get_dir_size" /\ ret.path = X
    /\ FullyReadable(fs, X)
    /\ fs[LNK] = Link(X)
    /\ fs[FG].kind = "file"
    /\ Cardinality(FilesUnder(fs, X)) = 4
    /\ ret.size = 670

\* The regular files get_dir_size(path) can get at: those inside the
\* directory path names, with every directory from it down to the file
\* open to listing.
ReadablePortion(F, path) ==
    LET d == Resolve(F, path)
    IN  IF d = NoPath \/ StatDenied(F, path) THEN {}
        ELSE { f \in FilesUnder(F, d) :
                 \A q \in Paths : (q = d \/ Under(q, d)) /\ Under(f, q) => Listable(F, q) }

\* C14: get_dir_size returns a number for every path, whatever cannot be
\* listed or read: a missing path, a file, a dangling link, a closed
\* directory give 0, a closed subdirectory contributes 0, and the result is
\* the sum over the readable portion, never negative.
C14_SumOfReadablePortion ==
    ret.op = "get_dir_size" =>
        /\ ret.size >= 0
        /\ ret.size = SumFileSizes(fs, ReadablePortion(fs, ret.path))

\* /tmp/x with 600 readable bytes and a subdirectory that cannot be opened
\* and holds a file.
C14_Witness ==
    /\ ret.op = "get_dir_size" /\ ret.path = X
    /\ fs[LOCKED].kind = "dir" /\ ~Listable(fs, LOCKED)
    /\ fs[FG].kind = "file"
    /\ ret.size = 600
    /\ ret.size < SumFileSizes(fs, FilesUnder(fs, X))

\* C15: force_remove returns a boolean for every path; for a path that does
\* not exist (nothing there, a link to nothing, a path that cannot be
\* reached) it returns False and leaves the filesystem as it was; and when
\* the chmod or the removal of a file or link raises, it returns False: it
\* returns True for a file or link only when the entry is gone.
C15_FalseNotRaised ==
    ret.op = "force_remove" =>
        /\ ret.ok \in BOOLEAN
        /\ ~exists(fs0, ret.path) => ret.ok = FALSE /\ fs = fs0
        /\ ~StatDenied(fs0, ret.path) /\ (is_file(fs0, ret.path) \/ is_symlink(fs0, ret.path))
               => (ret.ok <=> fs[ret.path].kind = "none")

\* The second of two calls, on a path where nothing is, in a directory that
\* still holds a file that refuses removal and a link to nothing.
C15_Witness ==
    /\ ret.op = "force_remove" /\ ret.path = "/nowhere"
    /\ ret.ok = FALSE
    /\ fs = fs0
    /\ pass = 2
    /\ fs[FA] = DeniedFile(100)
    /\ fs[LNK] = Link("/nowhere")

\* C16: whenever clean_directory_contents has attempted a top-level entry
\* and the entry is still there afterwards, wholly or in part, that attempt
\* added one to errors and nothing to items and freed (every entry of the
\* listing is attempted once: it leaves todo and never comes back).
C16_FailuresCounted ==
    [][pc = "for_item" /\ todo' # todo
           => LET item == CHOOSE x \in todo : x \notin todo'
              IN  fs'[item].kind # "none"
                      => /\ cdc'.errors = cdc.errors + 1
                         /\ cdc'.items = cdc.items
                         /\ cdc'.freed = cdc.freed]_vars

\* C17: a maintenance command that failed (ended with a failure status, or
\* raised) has no event in the stream and adds to no error count; the
\* commands after it are still attempted, and the pass still comes to its
\* DoneEvent instead of breaking off.
C17_FailedMaintenanceOmitted ==
    /\ \A i \in 1..Len(outcomes) :
          outcomes[i] # "ok" =>
              ~\E j \in 1..Len(events) :
                  /\ events[j].kind = "maintenance"
                  /\ events[j].category = Maintenance(OS)[i]
    /\ \A j \in 1..Len(events) : events[j].kind = "maintenance" => events[j].errors = 0
    /\ DoneEmitted => Len(outcomes) = Len(Maintenance(OS))
    /\ Len(outcomes) > 0 => pc # "raised"

\* C18: with another actor removing or changing what the catalog reaches
\* at any point, every scan returns a report and no clean pass is broken
\* off by an exception.
C18_SurvivesOtherActor ==
    /\ report.status # "error"
    /\ pc # "raised"

\* Every entry in every candidate tree of F can be deleted: nothing refuses
\* removal, every directory can be listed, every link leads somewhere.
AllDeletable(F) ==
    \A q \in Paths :
        InCandidateTree(q) /\ F[q].kind # "none" =>
            /\ ~F[q].denied
            /\ F[q].mode # "wo"
            /\ F[q].kind = "link" => Resolve(F, q) # NoPath /\ ~F[Resolve(F, q)].denied

\* The size a scan of F reports for catalog entry k (0 when it is left out).
SizeReported(F, k) == IF CatExists(F, targets[k].paths) THEN CatSize(F, targets[k].paths, 1) ELSE 0

\* C19: when everything in the candidate trees is deletable, the DoneEvent's
\* total_freed of a pass equals the grand total of a scan taken when the
\* pass was requested, and no category's freed exceeds the size that scan
\* reported for it.
C19_ScanCleanAgree ==
    DoneEmitted /\ AllDeletable(fs0) /\ scan(fs0, targets).status = "ok" =>
        /\ events[Len(events)].freed = scan(fs0, targets).total
        /\ \A i \in 1..Len(CategoryEvents) :
              CategoryEvents[i].freed <= SizeReported(fs0, i)

\* C20: whatever does not lie inside a candidate path that existed when the
\* pass was requested is, at every point of the pass, as it was then: not
\* deleted, its size and its permission attributes unchanged, also when a
\* candidate directory holds links that point outside.
C20_NothingOutsideChanged ==
    \A q \in Paths :
        (~\E c \in Candidates : exists(fs0, c) /\ Under(q, c)) => fs[q] = fs0[q]

\* The size clean_directory_contents takes of an entry right before it
\* attempts the removal.
PreDeletionSize(F, item) ==
    IF is_dir(F, item) THEN get_dir_size(F, item) ELSE F[Resolve(F, item)].size

\* C21: each step of the loop of clean_directory_contents handles one
\* top-level entry and adds to at most one counter: one to items_removed
\* together with the entry's pre-deletion size to freed, or one to errors
\* and nothing to freed.  When the call has returned, items_removed + errors
\* is at most the number of entries listed (one for a directory that cannot
\* be listed), and for a path that does not exist the result is (0, 0, 0)
\* and the filesystem is as it was.
C21_OneCounterPerEntry ==
    /\ [](ret.op = "clean_directory_contents" /\ ret.ok =>
            LET d == Resolve(fs0, ret.path)
            IN  /\ ret.items + ret.errors
                      <= IF ~exists(fs0, ret.path) THEN 0
                         ELSE IF Listable(fs0, d) THEN Cardinality(Entries(fs0, d))
                         ELSE 1
                /\ ret.items = 0 => ret.freed = 0
                /\ ~exists(fs0, ret.path)
                      => ret.freed = 0 /\ ret.errors = 0 /\ ret.items = 0 /\ fs = fs0)
    /\ [][pc = "for_item" /\ todo' # todo
             => LET item == CHOOSE x \in todo : x \notin todo'
                IN  \/ /\ cdc'.items = cdc.items + 1
                       /\ cdc'.errors = cdc.errors
                       /\ cdc'.freed = cdc.freed + PreDeletionSize(fs, item)
                    \/ /\ cdc'.errors = cdc.errors + 1
                       /\ cdc'.items = cdc.items
                       /\ cdc'.freed = cdc.freed
                    \/ cdc' = cdc]_vars

\* A call on /tmp/x that removed the files of 200 and 300 bytes and failed on
\* the one of 100 bytes, which refuses removal.
C21_Witness ==
    /\ ret.op = "clean_directory_contents" /\ ret.ok /\ ret.path = X
    /\ fs0[FA] = DeniedFile(100) /\ fs0[FC] = File(300)
    /\ fs[FA] = DeniedFile(100) /\ fs[FB] = Absent /\ fs[FC] = Absent
    /\ ret.items >= 2
    /\ ret.errors >= 1
    /\ ret.freed >= 500

=============================================================================
